---- MODULE Spec2Model ----
(***************************************************************************)
(* The ensure-and-converge handlers of ReconcileMultiClusterHub            *)
(* (package multiclusterhub): ensureDeployment, ensureService,             *)
(* ensureSecret, ensureChannel, ensureSubscription, apiReady and           *)
(* copyPullSecret, run against a resource store keyed by                   *)
(* (kind, namespace, name).  One action is one whole handler invocation;   *)
(* the store calls it issued and what it returned are kept in `last`.      *)
(* A second machine, ConcSpec, splits an ensure pass into its Get and what *)
(* follows it, so that passes and another writer interleave; its state is  *)
(* `conc`.                                                                 *)
(***************************************************************************)
EXTENDS Integers, Sequences, FiniteSets, TLC

VARIABLES
    store,      \* the resource store: the set of stored objects, one per key
    m,          \* the owning MultiClusterHub (name, namespace, UID, spec)
    desired,    \* the desired resource the policy layer built for this owner
    last,       \* the latest handler invocation: op, input, store calls, return
    tick,       \* parity of the number of handler invocations so far
    conc        \* the ensure passes in flight: each one's Get answer and outcome

vars == <<store, m, desired, last, tick, conc>>

\* The number of ensure passes in flight at once.
NumPasses == 2

Procs == 1..NumPasses

(***************************************************************************)
(* Bounds of the model.                                                    *)
(***************************************************************************)
\* Values of the fields a resource's owner decides (replicas, images, data).
MaxSpec == 2
Specs == 1..MaxSpec

(***************************************************************************)
(* Names, namespaces and errors.                                           *)
(***************************************************************************)
Namespaces == {"ocm", "cert-manager"}
OwnerName == "multiclusterhub"
PullSecretName == "pull-secret"
HelmRepoName == "multiclusterhub-repo"
APIServerName == "mcm-apiserver"
ControllerName == "mcm-controller"
WebhookName == "mcm-webhook"
SubscriptionGV == "apps.open-cluster-management.io/v1"
CoreGV == "v1"
GroupVersions == {CoreGV, SubscriptionGV}

Nil == "nil"
NotFound == "NotFound"
AlreadyExists == "AlreadyExists"
Invalid == "Invalid"
\* Errors a store call can fail with besides the ones its arguments decide.
StoreErrs == {"Timeout", "Forbidden"}
Faults == {Nil} \cup StoreErrs
\* The faults of the up to n store calls of one invocation.  A handler issues
\* no call after one that failed this way, so at most one of them does.
FaultPlans(n) ==
    {f \in [1..n -> Faults] : \A i, j \in 1..n : (i < j /\ f[i] # Nil) => f[j] = Nil}

\* time.Second * 10, in seconds
RequeueSeconds == 10

(***************************************************************************)
(* Objects.  spec stands for the fields the owner's policy decides (for a  *)
(* Secret: its data); uid, resourceVersion and selfLink are assigned by    *)
(* the store and are empty on an object that was never stored.             *)
(***************************************************************************)
Obj(kind, ns, name, spec, labels) ==
    [kind |-> kind, namespace |-> ns, name |-> name, spec |-> spec,
     labels |-> labels, uid |-> "", resourceVersion |-> "", selfLink |-> ""]

\* found := &appsv1.Deployment{} and the like: the zero object
ZeroObj == Obj("", "", "", 0, {})

Key(o) == <<o.kind, o.namespace, o.name>>

Present(s, k) == \E o \in s : Key(o) = k

Lookup(s, k) == CHOOSE o \in s : Key(o) = k

\* What the store keeps of a written object: identity and version assigned.
Stored(o) ==
    [o EXCEPT !.uid = "uid-" \o o.namespace \o "-" \o o.name,
              !.resourceVersion = "rv",
              !.selfLink = "/" \o o.namespace \o "/" \o o.name]

Call(verb, k, o, e) == [verb |-> verb, key |-> k, obj |-> o, err |-> e]

\* r.client.Get(ctx, key, found)
ClientGet(s, k, fault) ==
    IF fault # Nil THEN [obj |-> ZeroObj, err |-> fault, call |-> Call("Get", k, ZeroObj, fault)]
    ELSE IF ~Present(s, k)
         THEN [obj |-> ZeroObj, err |-> NotFound, call |-> Call("Get", k, ZeroObj, NotFound)]
         ELSE [obj |-> Lookup(s, k), err |-> Nil, call |-> Call("Get", k, Lookup(s, k), Nil)]

\* r.client.Create(ctx, obj)
ClientCreate(s, o, fault) ==
    LET e == IF fault # Nil THEN fault
             ELSE IF o.resourceVersion # "" THEN Invalid
             ELSE IF Present(s, Key(o)) THEN AlreadyExists
             ELSE Nil
    IN [store |-> IF e = Nil THEN s \cup {Stored(o)} ELSE s,
        err |-> e, call |-> Call("Create", Key(o), o, e)]

\* r.client.Update(ctx, obj)
ClientUpdate(s, o, fault) ==
    LET e == IF fault # Nil THEN fault
             ELSE IF ~Present(s, Key(o)) THEN NotFound
             ELSE Nil
    IN [store |-> IF e = Nil THEN (s \ {Lookup(s, Key(o))}) \cup {Stored(o)} ELSE s,
        err |-> e, call |-> Call("Update", Key(o), o, e)]

(***************************************************************************)
(* What a handler returns: a reconcile.Result pointer and an error.        *)
(***************************************************************************)
\* return nil, nil
NilResult == [isNil |-> TRUE, RequeueAfter |-> 0]
\* &reconcile.Result{}
EmptyResult == [isNil |-> FALSE, RequeueAfter |-> 0]

Ret(res, e) == [result |-> res, err |-> e]

Outcome(s, calls, ret) == [store |-> s, calls |-> calls, ret |-> ret]

(***************************************************************************)
(* The diff strategies.  Their code is in pkg/helmrepo, pkg/mcm and        *)
(* pkg/subscription; they are modelled from the specification: a pure      *)
(* function that compares the fields the owner decides and returns the     *)
(* observed object with those fields replaced, and whether it differed.    *)
(***************************************************************************)
\* The value the owner's policy gives the owned fields (with r.CacheSpec).
PolicySpec(mm) == mm.Spec

\* helmrepo.ValidateDeployment(m, r.CacheSpec, found)
HelmRepoValidateDeployment(mm, found) ==
    [obj |-> [found EXCEPT !.spec = PolicySpec(mm)],
     needsUpdate |-> found.spec # PolicySpec(mm)]

\* mcm.ValidateDeployment(m, r.CacheSpec, found)
McmValidateDeployment(mm, found) ==
    [obj |-> [found EXCEPT !.spec = PolicySpec(mm)],
     needsUpdate |-> found.spec # PolicySpec(mm)]

\* subscription.Validate(found, u)
SubscriptionValidate(found, want) ==
    [obj |-> [found EXCEPT !.spec = want.spec],
     needsUpdate |-> found.spec # want.spec]

\* utils.CoreToUnstructured(pullSecret): the same content, untyped
CoreToUnstructured(o) == [obj |-> o, err |-> Nil]

\* utils.AddInstallerLabel(u, m.Name, m.Namespace)
InstallerLabel(name, ns) == <<"installer", name, ns>>

AddInstallerLabel(o, name, ns) ==
    [o EXCEPT !.labels = {l \in o.labels : l[1] # "installer"} \cup {InstallerLabel(name, ns)}]

(***************************************************************************)
(* The handlers, as functions of the store, their arguments and the        *)
(* faults the store answers their calls with.                              *)
(***************************************************************************)
\* A variant that takes every failed Get for absence.
IsNotFoundOrFailed(e) == e # Nil

\* errors.IsNotFound(err)
IsNotFound(e) == e = NotFound

\* A variant of the create branch that tries a failed Create once more.
CreateBranchRetrying(s, g, o, createAllowed, wf) ==
    IF createAllowed
    THEN LET c == ClientCreate(s, o, wf)
         IN IF c.err # Nil
            THEN LET c2 == ClientCreate(c.store, o, Nil)
                 IN Outcome(c2.store, <<g.call, c.call, c2.call>>,
                            Ret(IF c2.err # Nil THEN EmptyResult ELSE NilResult, c2.err))
            ELSE Outcome(c.store, <<g.call, c.call>>, Ret(NilResult, Nil))
    ELSE Outcome(s, <<g.call>>, Ret(NilResult, Nil))

\* The tail every ensure handler shares: the create branch and the branch
\* for a Get that failed otherwise.  uidGuard is the `m.UID != ""` test
\* that only ensureSubscription makes.
CreateBranch(s, g, o, createAllowed, wf) ==
    IF createAllowed
    THEN LET c == ClientCreate(s, o, wf)
         IN IF c.err # Nil
            THEN Outcome(c.store, <<g.call, c.call>>, Ret(EmptyResult, c.err))
            ELSE Outcome(c.store, <<g.call, c.call>>, Ret(NilResult, Nil))
    ELSE Outcome(s, <<g.call>>, Ret(NilResult, Nil))

GetFailed(s, g) == Outcome(s, <<g.call>>, Ret(EmptyResult, g.err))

\* A variant that writes the strategy's replacement back whatever the
\* strategy's verdict.
UpdateBranchAlways(s, g, v, wf) ==
    LET u == ClientUpdate(s, v.obj, wf)
    IN IF u.err # Nil
       THEN Outcome(u.store, <<g.call, u.call>>, Ret(EmptyResult, u.err))
       ELSE Outcome(u.store, <<g.call, u.call>>, Ret(NilResult, Nil))

\* if needsUpdate { err = r.client.Update(ctx, desired) ... }
UpdateBranch(s, g, v, wf) ==
    IF v.needsUpdate
    THEN LET u == ClientUpdate(s, v.obj, wf)
         IN IF u.err # Nil
            THEN Outcome(u.store, <<g.call, u.call>>, Ret(EmptyResult, u.err))
            ELSE Outcome(u.store, <<g.call, u.call>>, Ret(NilResult, Nil))
    ELSE Outcome(s, <<g.call>>, Ret(NilResult, Nil))

\* The key of the existence Get of ensureDeployment, ensureService,
\* ensureSecret and ensureChannel: the object's name, the owner's namespace.
OwnerNamespaceKey(mm, o) == <<o.kind, mm.Namespace, o.name>>

\* The key of the existence Get of ensureSubscription: u.GetName(), u.GetNamespace().
ObjectKey(mm, o) == <<o.kind, o.namespace, o.name>>

\* A variant whose switch sends every other name to the mcm strategy.
ensureDeploymentValidatingAll(s, mm, dep, g, wf) ==
    IF g.err # Nil /\ IsNotFound(g.err) THEN CreateBranch(s, g, dep, TRUE, wf)
    ELSE IF g.err # Nil THEN GetFailed(s, g)
    ELSE IF g.obj.name = HelmRepoName
         THEN UpdateBranch(s, g, HelmRepoValidateDeployment(mm, g.obj), wf)
    ELSE UpdateBranch(s, g, McmValidateDeployment(mm, g.obj), wf)

\* Each ensure handler is its existence Get, then what it does with the
\* answer g; s is the store at the time of the write.
ensureDeploymentAfterGet(s, mm, dep, g, wf) ==
    IF g.err # Nil /\ IsNotFound(g.err) THEN CreateBranch(s, g, dep, TRUE, wf)
    ELSE IF g.err # Nil THEN GetFailed(s, g)
    ELSE IF g.obj.name = HelmRepoName
         THEN UpdateBranch(s, g, HelmRepoValidateDeployment(mm, g.obj), wf)
    ELSE IF g.obj.name \in {APIServerName, ControllerName, WebhookName}
         THEN UpdateBranch(s, g, McmValidateDeployment(mm, g.obj), wf)
    ELSE Outcome(s, <<g.call>>, Ret(NilResult, Nil))

ensureDeployment(s, mm, dep, gf, wf) ==
    ensureDeploymentAfterGet(s, mm, dep, ClientGet(s, OwnerNamespaceKey(mm, dep), gf), wf)

ensureServiceAfterGet(s, mm, svc, g, wf) ==
    IF g.err # Nil /\ IsNotFound(g.err) THEN CreateBranch(s, g, svc, TRUE, wf)
    ELSE IF g.err # Nil THEN GetFailed(s, g)
    ELSE Outcome(s, <<g.call>>, Ret(NilResult, Nil))

ensureService(s, mm, svc, gf, wf) ==
    ensureServiceAfterGet(s, mm, svc, ClientGet(s, OwnerNamespaceKey(mm, svc), gf), wf)

ensureSecretAfterGet(s, mm, sec, g, wf) ==
    IF g.err # Nil /\ IsNotFound(g.err) THEN CreateBranch(s, g, sec, TRUE, wf)
    ELSE IF g.err # Nil THEN GetFailed(s, g)
    ELSE Outcome(s, <<g.call>>, Ret(NilResult, Nil))

ensureSecret(s, mm, sec, gf, wf) ==
    ensureSecretAfterGet(s, mm, sec, ClientGet(s, OwnerNamespaceKey(mm, sec), gf), wf)

ensureChannelAfterGet(s, mm, u, g, wf) ==
    IF g.err # Nil /\ IsNotFound(g.err) THEN CreateBranch(s, g, u, TRUE, wf)
    ELSE IF g.err # Nil THEN GetFailed(s, g)
    ELSE Outcome(s, <<g.call>>, Ret(NilResult, Nil))

ensureChannel(s, mm, u, gf, wf) ==
    ensureChannelAfterGet(s, mm, u, ClientGet(s, OwnerNamespaceKey(mm, u), gf), wf)

\* A variant that updates with the desired object rather than with the
\* object Validate returned.
ensureSubscriptionUpdatingInput(s, mm, u, g, wf) ==
    IF g.err # Nil /\ IsNotFound(g.err) THEN CreateBranch(s, g, u, mm.UID # "", wf)
    ELSE IF g.err # Nil THEN GetFailed(s, g)
    ELSE UpdateBranch(s, g, [SubscriptionValidate(g.obj, u) EXCEPT !.obj = u], wf)

ensureSubscriptionAfterGet(s, mm, u, g, wf) ==
    IF g.err # Nil /\ IsNotFound(g.err) THEN CreateBranch(s, g, u, mm.UID # "", wf)
    ELSE IF g.err # Nil THEN GetFailed(s, g)
    ELSE UpdateBranch(s, g, SubscriptionValidate(g.obj, u), wf)

ensureSubscription(s, mm, u, gf, wf) ==
    ensureSubscriptionAfterGet(s, mm, u, ClientGet(s, ObjectKey(mm, u), gf), wf)

(***************************************************************************)
(* apiReady.  The discovery endpoint is not part of the resource store's   *)
(* objects: env says whether the rest config and the discovery client can  *)
(* be built, whether the endpoint answers, and which group/versions the    *)
(* server lists.                                                           *)
(***************************************************************************)
ConfigErr == "ConfigErr"
ClientErr == "ClientErr"
ConnErr == "ConnErr"
NotSupported == "NotSupported"

\* The servers an API server can be: it always lists the core group.
Servers == [reachable : BOOLEAN, groups : {g \in SUBSET GroupVersions : CoreGV \in g}]
\* What config.GetConfig and discovery.NewDiscoveryClientForConfig return, and
\* the server the client then talks to (it matters only once both succeeded).
Envs ==
    {e \in [cfgErr : {Nil, ConfigErr}, clientErr : {Nil, ClientErr}, server : Servers] :
        (e.cfgErr # Nil \/ e.clientErr # Nil) =>
            (e.server = [reachable |-> TRUE, groups |-> {CoreGV}]
             /\ (e.cfgErr = Nil \/ e.clientErr = Nil))}

\* discovery.ServerSupportsVersion(c, gv): the group list cannot be fetched,
\* or it does not hold gv
ServerSupportsVersion(server, gv) ==
    IF ~server.reachable THEN ConnErr
    ELSE IF gv \in server.groups THEN Nil
    ELSE NotSupported

\* &reconcile.Result{RequeueAfter: time.Second * 10}
RequeueResult == [isNil |-> FALSE, RequeueAfter |-> RequeueSeconds]

\* A variant that reports an unserved group/version as a failure.
apiReadyFailing(s, env, gv) ==
    IF env.cfgErr # Nil THEN Outcome(s, <<>>, Ret(EmptyResult, env.cfgErr))
    ELSE IF env.clientErr # Nil THEN Outcome(s, <<>>, Ret(EmptyResult, env.clientErr))
    ELSE IF ServerSupportsVersion(env.server, gv) # Nil
         THEN Outcome(s, <<>>, Ret(EmptyResult, ServerSupportsVersion(env.server, gv)))
    ELSE Outcome(s, <<>>, Ret(NilResult, Nil))

apiReady(s, env, gv) ==
    IF env.cfgErr # Nil THEN Outcome(s, <<>>, Ret(EmptyResult, env.cfgErr))
    ELSE IF env.clientErr # Nil THEN Outcome(s, <<>>, Ret(EmptyResult, env.clientErr))
    ELSE IF ServerSupportsVersion(env.server, gv) # Nil
         THEN Outcome(s, <<>>, Ret(RequeueResult, Nil))
    ELSE Outcome(s, <<>>, Ret(NilResult, Nil))

(***************************************************************************)
(* copyPullSecret.                                                         *)
(***************************************************************************)
\* A variant that leaves the source's UID on the copy.
StripIdentityKeepingUID(o, newNS) ==
    [o EXCEPT !.namespace = newNS, !.selfLink = "", !.resourceVersion = ""]

\* pullSecret.SetNamespace(newNS); SetSelfLink(""); SetResourceVersion(""); SetUID("")
StripIdentity(o, newNS) ==
    [o EXCEPT !.namespace = newNS, !.selfLink = "", !.resourceVersion = "", !.uid = ""]

\* A variant that brings an existing target secret up to date.
copyPullSecretSyncing(s, g1, copy, newNS, gf, wf) ==
    LET g2 == ClientGet(s, <<copy.kind, newNS, copy.name>>, gf)
    IN IF g2.err # Nil /\ IsNotFound(g2.err)
       THEN LET c == ClientCreate(s, copy, wf)
            IN IF c.err # Nil
               THEN Outcome(c.store, <<g1.call, g2.call, c.call>>, Ret(EmptyResult, c.err))
               ELSE Outcome(c.store, <<g1.call, g2.call, c.call>>, Ret(NilResult, Nil))
       ELSE IF g2.err = Nil
       THEN LET u == ClientUpdate(s, copy, wf)
            IN Outcome(u.store, <<g1.call, g2.call, u.call>>,
                       Ret(IF u.err # Nil THEN EmptyResult ELSE NilResult, u.err))
       ELSE Outcome(s, <<g1.call, g2.call>>, Ret(NilResult, Nil))

\* The second Get, into the copy itself, and what follows it.
copyPullSecretWrite(s, g1, copy, newNS, gf, wf) ==
    LET g2 == ClientGet(s, <<copy.kind, newNS, copy.name>>, gf)
    IN IF g2.err # Nil /\ IsNotFound(g2.err)
       THEN LET c == ClientCreate(s, copy, wf)
            IN IF c.err # Nil
               THEN Outcome(c.store, <<g1.call, g2.call, c.call>>, Ret(EmptyResult, c.err))
               ELSE Outcome(c.store, <<g1.call, g2.call, c.call>>, Ret(NilResult, Nil))
       ELSE Outcome(s, <<g1.call, g2.call>>, Ret(NilResult, Nil))

\* A variant that labels the secret it fetched in place, saving it, before
\* it makes the copy.
copyPullSecretLabelling(s, mm, newNS, sf, gf, wf) ==
    LET g1 == ClientGet(s, <<"Secret", mm.Namespace, mm.ImagePullSecret>>, sf)
    IN IF g1.err # Nil THEN Outcome(s, <<g1.call>>, Ret(EmptyResult, g1.err))
       ELSE LET src == AddInstallerLabel(g1.obj, mm.Name, mm.Namespace)
                up == ClientUpdate(s, src, Nil)
                u == CoreToUnstructured(StripIdentity(src, newNS))
            IN copyPullSecretWrite(up.store, g1, u.obj, newNS, gf, wf)

copyPullSecret(s, mm, newNS, sf, gf, wf) ==
    LET g1 == ClientGet(s, <<"Secret", mm.Namespace, mm.ImagePullSecret>>, sf)
    IN IF g1.err # Nil THEN Outcome(s, <<g1.call>>, Ret(EmptyResult, g1.err))
       ELSE LET u == CoreToUnstructured(StripIdentity(g1.obj, newNS))
            IN IF u.err # Nil THEN Outcome(s, <<g1.call>>, Ret(EmptyResult, u.err))
               ELSE copyPullSecretWrite(s, g1,
                        AddInstallerLabel(u.obj, mm.Name, mm.Namespace), newNS, gf, wf)

(***************************************************************************)
(* The state machine.                                                      *)
(***************************************************************************)
OwnerNamespaces == Namespaces
OwnerUIDs == {"", "uid-mch"}

Owners ==
    [Name : {OwnerName}, Namespace : OwnerNamespaces, UID : OwnerUIDs,
     Spec : Specs, ImagePullSecret : {PullSecretName}]

\* The managed references of the model, kind and name.  A behaviour follows
\* one of them; the managed Secret is the owner's image pull secret, which
\* copyPullSecret propagates.
Managed ==
    {<<"Deployment", HelmRepoName>>, <<"Deployment", APIServerName>>,
     <<"Deployment", "console">>, <<"Service", HelmRepoName>>,
     <<"Secret", PullSecretName>>, <<"Channel", "charts-v1">>,
     <<"Subscription", "application-chart">>}

\* The desired resource of a managed reference in namespace ns, as the
\* owner's policy builds it.
Desired(ref, ns, mm) == Obj(ref[1], ns, ref[2], PolicySpec(mm), {})

\* The record of an invocation; absent says whether the desired resource was
\* absent from the store, under its own key, when the handler was entered.
Invocation(op, newNS, gv, env, absent, out) ==
    [op |-> op, newNS |-> newNS, gv |-> gv, env |-> env, absent |-> absent,
     calls |-> out.calls, ret |-> out.ret]

NoEnv == [cfgErr |-> Nil, clientErr |-> Nil,
          server |-> [reachable |-> TRUE, groups |-> {CoreGV}]]

NoInvocation(op) ==
    Invocation(op, "", "", NoEnv, FALSE, Outcome({}, <<>>, Ret(NilResult, Nil)))

\* A pass of an ensure handler for the object want: where it is (before its
\* Get, between the Get and what follows, returned), the Get's answer, the
\* faults the store answered with, the calls issued and the return, and
\* whether the store still agreed with the Get's answer when the pass acted.
NoGet == ClientGet({}, <<"", "", "">>, Nil)

NewPass(want) ==
    [pc |-> "idle", want |-> want, get |-> NoGet, gf |-> Nil, wf |-> Nil,
     stale |-> FALSE, calls |-> <<>>, ret |-> Ret(NilResult, Nil)]

\* No pass in flight: every handler invocation runs to its return.
NoConc == [start |-> {}, wrote |-> FALSE, pass |-> <<>>]

Init ==
    /\ store = {}
    /\ m \in Owners
    /\ \E ref \in Managed, ns \in Namespaces : desired = Desired(ref, ns, m)
    /\ last = NoInvocation("none")
    /\ tick = 0
    /\ conc = NoConc

Invoke(op, newNS, gv, env, out) ==
    /\ store' = out.store
    /\ last' = Invocation(op, newNS, gv, env, ~Present(store, Key(desired)), out)
    /\ tick' = 1 - tick
    /\ UNCHANGED <<m, desired, conc>>

EnsureDeploymentWith(f) ==
    /\ desired.kind = "Deployment"
    /\ Invoke("ensureDeployment", "", "", NoEnv, ensureDeployment(store, m, desired, f[1], f[2]))

EnsureDeployment == \E f \in FaultPlans(2) : EnsureDeploymentWith(f)

EnsureServiceWith(f) ==
    /\ desired.kind = "Service"
    /\ Invoke("ensureService", "", "", NoEnv, ensureService(store, m, desired, f[1], f[2]))

EnsureService == \E f \in FaultPlans(2) : EnsureServiceWith(f)

EnsureSecretWith(f) ==
    /\ desired.kind = "Secret"
    /\ Invoke("ensureSecret", "", "", NoEnv, ensureSecret(store, m, desired, f[1], f[2]))

EnsureSecret == \E f \in FaultPlans(2) : EnsureSecretWith(f)

EnsureChannelWith(f) ==
    /\ desired.kind = "Channel"
    /\ Invoke("ensureChannel", "", "", NoEnv, ensureChannel(store, m, desired, f[1], f[2]))

EnsureChannel == \E f \in FaultPlans(2) : EnsureChannelWith(f)

EnsureSubscriptionWith(f) ==
    /\ desired.kind = "Subscription"
    /\ Invoke("ensureSubscription", "", "", NoEnv, ensureSubscription(store, m, desired, f[1], f[2]))

EnsureSubscription == \E f \in FaultPlans(2) : EnsureSubscriptionWith(f)

ApiReady ==
    \E env \in Envs, gv \in GroupVersions :
        Invoke("apiReady", "", gv, env, apiReady(store, env, gv))

CopyPullSecret ==
    \E newNS \in Namespaces, f \in FaultPlans(3) :
        Invoke("copyPullSecret", newNS, "", NoEnv,
               copyPullSecret(store, m, newNS, f[1], f[2], f[3]))

\* Another actor of the cluster writes or deletes an object of the managed
\* reference, in any namespace.
ExternalRefs == {<<desired.kind, desired.name>>}

ExternalWrite ==
    \E ref \in ExternalRefs, ns \in Namespaces, sp \in Specs :
        LET o == Obj(ref[1], ns, ref[2], sp, {})
        IN /\ store' = {x \in store : Key(x) # Key(o)} \cup {Stored(o)}
           /\ last' = NoInvocation("external")
           /\ UNCHANGED <<m, desired, tick, conc>>

ExternalDelete ==
    \E o \in store :
        /\ store' = store \ {o}
        /\ last' = NoInvocation("external")
        /\ UNCHANGED <<m, desired, tick, conc>>

Next ==
    \/ EnsureDeployment
    \/ EnsureService
    \/ EnsureSecret
    \/ EnsureChannel
    \/ EnsureSubscription
    \/ ApiReady
    \/ CopyPullSecret
    \/ ExternalWrite
    \/ ExternalDelete

Spec == Init /\ [][Next]_vars

(***************************************************************************)
(* Repeated passes over one managed resource, with no other writer: the    *)
(* store starts in any state of the managed reference, the owner has a     *)
(* UID, the pass is run again and again, and a pass whose store calls all  *)
(* succeed keeps happening.                                                *)
(***************************************************************************)
\* The stores that hold objects of the reference only, one per namespace at most.
StoresOf(ref) ==
    {S \in SUBSET {Stored(Obj(ref[1], ns, ref[2], sp, {})) : ns \in Namespaces, sp \in Specs} :
        \A a, b \in S : Key(a) = Key(b) => a = b}

FairInit ==
    /\ m \in {o \in Owners : o.UID # ""}
    /\ \E ref \in Managed, ns \in Namespaces :
          /\ desired = Desired(ref, ns, m)
          /\ store \in StoresOf(ref)
    /\ last = NoInvocation("none")
    /\ tick = 0
    /\ conc = NoConc

EnsurePass ==
    \/ EnsureDeployment
    \/ EnsureService
    \/ EnsureSecret
    \/ EnsureChannel
    \/ EnsureSubscription

NoFault == [i \in 1..2 |-> Nil]

CleanPass ==
    \/ EnsureDeploymentWith(NoFault)
    \/ EnsureServiceWith(NoFault)
    \/ EnsureSecretWith(NoFault)
    \/ EnsureChannelWith(NoFault)
    \/ EnsureSubscriptionWith(NoFault)

FairSpec == FairInit /\ [][EnsurePass]_vars /\ WF_vars(CleanPass)

(***************************************************************************)
(* Interleaved passes.  The handlers hold no lock and carry no state from  *)
(* the Get to the write but the Get's answer, so a pass is two steps: the  *)
(* Get, and everything after it, run on the store as it is by then.        *)
(* NumPasses passes of the same handler, for the same kind and name in any *)
(* namespaces, run beside one write of another actor.                      *)
(***************************************************************************)
\* The handler of an object's kind.
Ensure(s, mm, o, gf, wf) ==
    CASE o.kind = "Deployment" -> ensureDeployment(s, mm, o, gf, wf)
      [] o.kind = "Service" -> ensureService(s, mm, o, gf, wf)
      [] o.kind = "Secret" -> ensureSecret(s, mm, o, gf, wf)
      [] o.kind = "Channel" -> ensureChannel(s, mm, o, gf, wf)
      [] o.kind = "Subscription" -> ensureSubscription(s, mm, o, gf, wf)

\* The key of its existence Get.
EnsureGetKey(mm, o) ==
    IF o.kind = "Subscription" THEN ObjectKey(mm, o) ELSE OwnerNamespaceKey(mm, o)

\* What it does with the Get's answer g.
EnsureAfterGet(s, mm, o, g, wf) ==
    CASE o.kind = "Deployment" -> ensureDeploymentAfterGet(s, mm, o, g, wf)
      [] o.kind = "Service" -> ensureServiceAfterGet(s, mm, o, g, wf)
      [] o.kind = "Secret" -> ensureSecretAfterGet(s, mm, o, g, wf)
      [] o.kind = "Channel" -> ensureChannelAfterGet(s, mm, o, g, wf)
      [] o.kind = "Subscription" -> ensureSubscriptionAfterGet(s, mm, o, g, wf)

ConcInit ==
    /\ m \in {o \in Owners : o.UID # ""}
    /\ \E ref \in Managed :
          /\ store \in StoresOf(ref)
          /\ \E w \in [Procs -> {Desired(ref, ns, m) : ns \in Namespaces}] :
                /\ desired = w[1]
                /\ conc = [start |-> store, wrote |-> FALSE,
                           pass |-> [p \in Procs |-> NewPass(w[p])]]
    /\ last = NoInvocation("none")
    /\ tick = 0

\* err := r.client.Get(...): pass p reads the store.
PassGet(p) ==
    /\ conc.pass[p].pc = "idle"
    /\ \E gf \in Faults :
          conc' = [conc EXCEPT !.pass[p].pc = "got",
                               !.pass[p].gf = gf,
                               !.pass[p].get =
                                   ClientGet(store, EnsureGetKey(m, conc.pass[p].want), gf)]
    /\ UNCHANGED <<store, m, desired, last, tick>>

\* The rest of the handler: pass p acts on the answer its Get gave and
\* returns.
PassAct(p) ==
    /\ conc.pass[p].pc = "got"
    /\ \E wf \in Faults :
          /\ conc.pass[p].gf # Nil => wf = Nil
          /\ LET want == conc.pass[p].want
                 out == EnsureAfterGet(store, m, want, conc.pass[p].get, wf)
                 now == ClientGet(store, EnsureGetKey(m, want), conc.pass[p].gf)
             IN /\ store' = out.store
                /\ conc' = [conc EXCEPT !.pass[p].pc = "done",
                                        !.pass[p].wf = wf,
                                        !.pass[p].stale = (now # conc.pass[p].get),
                                        !.pass[p].calls = out.calls,
                                        !.pass[p].ret = out.ret]
    /\ UNCHANGED <<m, desired, last, tick>>

\* Another actor of the cluster writes an object of the passes' kind and
\* name, once.
ConcExternalWrite ==
    /\ ~conc.wrote
    /\ \E ns \in Namespaces, sp \in Specs :
          LET o == Obj(desired.kind, ns, desired.name, sp, {})
          IN store' = {x \in store : Key(x) # Key(o)} \cup {Stored(o)}
    /\ conc' = [conc EXCEPT !.wrote = TRUE]
    /\ UNCHANGED <<m, desired, last, tick>>

ConcNext ==
    \/ \E p \in Procs : PassGet(p)
    \/ \E p \in Procs : PassAct(p)
    \/ ConcExternalWrite

ConcSpec == ConcInit /\ [][ConcNext]_vars

(***************************************************************************)
(* The properties.                                                         *)
(***************************************************************************)
EnsureOps ==
    {"ensureDeployment", "ensureService", "ensureSecret", "ensureChannel",
     "ensureSubscription"}

CreatingOps == EnsureOps \cup {"copyPullSecret"}

CallsOf(l, verb) == {i \in DOMAIN l.calls : l.calls[i].verb = verb}

Writes(l) == CallsOf(l, "Create") \cup CallsOf(l, "Update")

\* No call of the invocation failed for a reason of the store's own.
NoFaults(l) == \A i \in DOMAIN l.calls : l.calls[i].err \notin StoreErrs

\* The step is a handler invocation.
Invoked == tick' # tick

\* C1: idempotence of the ensure handlers.  When the desired resource is
\* absent from the store and the owner has a UID, two successive invocations
\* of the same ensure handler (same input, a store that fails no call, no
\* external write in between) issue exactly one Create in the first and no
\* Create and no Update in the second, and the second returns no error.
C1_EnsureIdempotent ==
    [][(/\ Invoked
        /\ last.op \in EnsureOps
        /\ last'.op = last.op
        /\ m.UID # ""
        /\ last.absent
        /\ NoFaults(last)
        /\ NoFaults(last'))
       => (/\ Cardinality(CallsOf(last, "Create")) = 1
           /\ Writes(last') = {}
           /\ last'.ret.err = Nil)]_vars

\* C2: an ensure handler entered with the desired resource absent from the
\* store (owner with a UID, the existence Get not failed by the store)
\* issues exactly one Create, whose payload is the desired resource
\* unmodified, issues no Update, and when the Create succeeds returns no
\* error and leaves the resource present.
C2_AbsentIsCreatedVerbatim ==
    (/\ last.op \in EnsureOps
     /\ m.UID # ""
     /\ last.absent
     /\ last.calls[1].err \notin StoreErrs)
    => (/\ Cardinality(CallsOf(last, "Create")) = 1
        /\ CallsOf(last, "Update") = {}
        /\ \A i \in CallsOf(last, "Create") :
              /\ last.calls[i].obj = desired
              /\ last.calls[i].err = Nil =>
                    (last.ret.err = Nil /\ Present(store, Key(desired))))

\* C3: in the ensure handlers and copyPullSecret a Create is issued only
\* right after a Get that returned not-found, and an invocation in which a
\* Get failed with any other error issues no Create and no Update.
C3_CreateOnlyAfterNotFound ==
    last.op \in CreatingOps =>
        /\ \A i \in CallsOf(last, "Create") :
              /\ i > 1
              /\ last.calls[i - 1].verb = "Get"
              /\ last.calls[i - 1].err = NotFound
        /\ (\E i \in CallsOf(last, "Get") : last.calls[i].err \notin {Nil, NotFound})
              => Writes(last) = {}

\* C3's case: copyPullSecret's existence Get in the target namespace fails
\* with an error other than not-found, and no write follows it.
C3_Witness ==
    /\ last.op = "copyPullSecret"
    /\ Len(last.calls) = 2
    /\ last.calls[2].verb = "Get"
    /\ last.calls[2].err \in StoreErrs

\* The call of an invocation that checks existence: the only Get of an
\* ensure handler, the second Get of copyPullSecret.
ExistenceCheck(l) == IF l.op = "copyPullSecret" THEN 2 ELSE 1

\* C4: no store error is swallowed.  Whenever a store call of an ensure
\* handler or of copyPullSecret fails, other than an existence check
\* answering not-found, the handler returns that error.
C4_NoErrorSwallowed ==
    last.op \in CreatingOps =>
        \A i \in DOMAIN last.calls :
            (/\ last.calls[i].err # Nil
             /\ ~(i = ExistenceCheck(last) /\ last.calls[i].err = NotFound))
            => last.ret.err = last.calls[i].err

\* C5: with an owner whose UID is empty and the desired resource absent, an
\* ensure handler (the store failing no call) issues no Create, returns no
\* error and leaves the resource absent.
C5_NoCreateWithoutOwnerUID ==
    (/\ last.op \in EnsureOps
     /\ m.UID = ""
     /\ last.absent
     /\ NoFaults(last))
    => (/\ CallsOf(last, "Create") = {}
        /\ last.ret.err = Nil
        /\ ~Present(store, Key(desired)))

\* The desired resource is in the store, under its own key, with the owned
\* fields the policy gives it.
Correct ==
    /\ Present(store, Key(desired))
    /\ Lookup(store, Key(desired)).spec = desired.spec

\* C6: convergence.  Under repeated passes of its ensure handler, with no
\* other writer, an owner that has a UID and store calls that eventually
\* succeed, a managed resource of any handled kind that starts absent,
\* present and incorrect or present and correct is eventually present and
\* correct, and stays so.
C6_Converges == <>[]Correct

\* C7: apiReady on a group/version the server does not list (the discovery
\* query itself succeeding) returns RequeueAfter = 10 s and a nil error and
\* issues no store call; the delay is that one value whenever it is not
\* zero; no other handler returns a requeue delay.
C7_NotServedRequeuesAfter10s ==
    /\ (/\ last.op = "apiReady"
        /\ last.env.cfgErr = Nil
        /\ last.env.clientErr = Nil
        /\ last.env.server.reachable
        /\ last.gv \notin last.env.server.groups)
       => (/\ last.ret.err = Nil
           /\ ~last.ret.result.isNil
           /\ last.ret.result.RequeueAfter = 10
           /\ last.calls = <<>>)
    /\ last.ret.result.RequeueAfter \in {0, 10}
    /\ last.op # "apiReady" => last.ret.result.RequeueAfter = 0

\* C7's case: apiReady asked for a group/version the reachable server does
\* not list, and it answered with the requeue delay.
C7_Witness ==
    /\ last.op = "apiReady"
    /\ last.env.cfgErr = Nil
    /\ last.env.clientErr = Nil
    /\ last.env.server.reachable
    /\ last.gv \notin last.env.server.groups
    /\ last.ret.result.RequeueAfter = 10

\* The readiness probe itself failed.
ProbeFailed(l) ==
    \/ l.env.cfgErr # Nil
    \/ l.env.clientErr # Nil
    \/ ~l.env.server.reachable

\* C8: apiReady tells a failed probe from "not ready".  When the rest
\* config or the discovery client cannot be built, or the discovery endpoint
\* cannot be reached, it returns an error and no requeue delay; it returns
\* the requeue delay with a nil error only when the discovery query
\* succeeded and did not list the group/version.
C8_ProbeFailureIsAnError ==
    last.op = "apiReady" =>
        /\ ProbeFailed(last) =>
              (last.ret.err # Nil /\ last.ret.result.RequeueAfter = 0)
        /\ (last.ret.result.RequeueAfter # 0 /\ last.ret.err = Nil) =>
              (~ProbeFailed(last) /\ last.gv \notin last.env.server.groups)

SourceKey == <<"Secret", m.Namespace, m.ImagePullSecret>>

TargetKey(ns) == <<"Secret", ns, m.ImagePullSecret>>

\* C9: copyPullSecret is one-shot.  In an invocation that fetched the
\* source secret: when the target namespace already holds a secret of that
\* name, it issues no write, returns no error and leaves that secret as it
\* was, whatever its contents and the source's; when the target namespace
\* holds none (and its existence Get is answered), it issues exactly one
\* Create and no Update; and an invocation that follows one that created the
\* secret, with no external write in between, issues no write.
C9_CopyIsOneShot ==
    [][(/\ Invoked
        /\ last'.op = "copyPullSecret"
        /\ last'.calls[1].err = Nil)
       => LET tk == TargetKey(last'.newNS)
          IN /\ Present(store, tk) =>
                   (/\ Writes(last') = {}
                    /\ last'.ret.err = Nil
                    /\ Present(store', tk)
                    /\ Lookup(store', tk) = Lookup(store, tk))
             /\ (~Present(store, tk) /\ last'.calls[2].err \notin StoreErrs) =>
                   (/\ Cardinality(CallsOf(last', "Create")) = 1
                    /\ CallsOf(last', "Update") = {}
                    /\ \A i \in CallsOf(last', "Create") : last'.calls[i].key = tk)
             /\ (/\ last.op = "copyPullSecret"
                 /\ last.newNS = last'.newNS
                 /\ \E i \in CallsOf(last, "Create") : last.calls[i].err = Nil)
                => Writes(last') = {}]_vars

\* C9's case: copyPullSecret found, in a target namespace other than the
\* owner's, a secret whose data differs from the source's, and wrote nothing.
C9_Witness ==
    /\ last.op = "copyPullSecret"
    /\ last.newNS # m.Namespace
    /\ Len(last.calls) = 2
    /\ last.calls[1].err = Nil
    /\ last.calls[2].err = Nil
    /\ last.calls[2].obj.spec # last.calls[1].obj.spec
    /\ Lookup(store, TargetKey(last.newNS)) = last.calls[2].obj

\* C10: the secret copyPullSecret creates has the source secret's name and
\* data, the target namespace, an empty resource version, self-link and
\* UID, and the installer label naming the owner; when the fetch of the
\* source fails, copyPullSecret returns that error and issues no other call.
C10_CopyIsStrippedAndLabelled ==
    last.op = "copyPullSecret" =>
        /\ \A i \in CallsOf(last, "Create") :
              LET src == last.calls[1].obj
                  new == last.calls[i].obj
              IN /\ last.calls[1].key = SourceKey
                 /\ new.kind = "Secret"
                 /\ new.name = src.name
                 /\ new.spec = src.spec
                 /\ new.namespace = last.newNS
                 /\ new.resourceVersion = ""
                 /\ new.selfLink = ""
                 /\ new.uid = ""
                 /\ InstallerLabel(m.Name, m.Namespace) \in new.labels
        /\ last.calls[1].err # Nil =>
              (Len(last.calls) = 1 /\ last.ret.err = last.calls[1].err)

\* C10's case: copyPullSecret fetched a stored source secret, which has a
\* UID and a resource version, and created its copy.
C10_Witness ==
    /\ last.op = "copyPullSecret"
    /\ Len(last.calls) = 3
    /\ last.calls[1].obj.uid # ""
    /\ last.calls[1].obj.resourceVersion # ""
    /\ last.calls[3].verb = "Create"
    /\ last.calls[3].err = Nil
    /\ Present(store, TargetKey(last.newNS))

\* The Deployment names ensureDeployment's switch has a strategy for.
RegisteredNames == {HelmRepoName, APIServerName, ControllerName, WebhookName}

\* The handlers that run a diff strategy on the resource they found.
DiffingOps == {"ensureDeployment", "ensureSubscription"}

\* The strategy's answer for the resource an invocation's Get returned.
Verdict(l) ==
    LET found == l.calls[1].obj
    IN IF l.op = "ensureSubscription" THEN SubscriptionValidate(found, desired)
       ELSE IF found.name = HelmRepoName THEN HelmRepoValidateDeployment(m, found)
       ELSE McmValidateDeployment(m, found)

\* The invocation's Get found a resource that a strategy is run on.
Diffed(l) ==
    /\ l.op \in DiffingOps
    /\ l.calls[1].err = Nil
    /\ l.op = "ensureDeployment" => l.calls[1].obj.name \in RegisteredNames

C12_UnknownNameIsLeftAlone ==
    [][(/\ Invoked
        /\ last'.op = "ensureDeployment"
        /\ last'.calls[1].err = Nil
        /\ last'.calls[1].obj.name \notin RegisteredNames)
       => (/\ Writes(last') = {}
           /\ last'.ret.err = Nil
           /\ store' = store)]_vars

\* C12's case: ensureDeployment found the "console" Deployment with a spec
\* other than the desired one and returned after its Get.
C12_Witness ==
    /\ last.op = "ensureDeployment"
    /\ last.calls[1].err = Nil
    /\ last.calls[1].obj.name \notin RegisteredNames
    /\ last.calls[1].obj.spec # desired.spec
    /\ Lookup(store, last.calls[1].key).spec # desired.spec
    /\ Len(last.calls) = 1
    /\ last.ret.err = Nil

C16_OneGetThenAtMostOneWrite ==
    /\ last.op \in EnsureOps =>
          /\ Len(last.calls) \in {1, 2}
          /\ last.calls[1].verb = "Get"
          /\ Len(last.calls) = 2 => last.calls[2].verb \in {"Create", "Update"}
    /\ last.op = "copyPullSecret" =>
          /\ Len(last.calls) \in {1, 2, 3}
          /\ last.calls[1].verb = "Get"
          /\ last.calls[1].key = SourceKey
          /\ Len(last.calls) >= 2 =>
                (last.calls[2].verb = "Get" /\ last.calls[2].key = TargetKey(last.newNS))
          /\ Len(last.calls) = 3 => last.calls[3].verb = "Create"
    /\ last.op \in CreatingOps =>
          \A i, j \in DOMAIN last.calls :
              (i < j /\ last.calls[i].err # Nil)
              => ~(/\ last.calls[j].verb = last.calls[i].verb
                   /\ last.calls[j].key = last.calls[i].key)

\* C16's case: the Create of an ensure handler failed and the invocation
\* ended there, returning the error.
C16_Witness ==
    /\ last.op \in EnsureOps
    /\ Len(last.calls) = 2
    /\ last.calls[2].verb = "Create"
    /\ last.calls[2].err \in StoreErrs
    /\ last.ret.err = last.calls[2].err

\* C17: in every ensure handler the key of the existence Get is the key
\* under which the desired resource is created, whatever the namespaces of
\* the desired resource and of the owner.
C17_GetKeyIsCreateKey ==
    last.op \in EnsureOps =>
        \A i \in CallsOf(last, "Create") : last.calls[i].key = last.calls[1].key

\* C18: copyPullSecret never writes to the source.  Across every invocation
\* of copyPullSecret, whatever its outcome and also when the target
\* namespace is the owner's, the source secret is in the store after the
\* step exactly as before it, no write call has the source's key, and no
\* Update is issued.
C18_SourceIsNeverWritten ==
    [][(Invoked /\ last'.op = "copyPullSecret")
       => (/\ CallsOf(last', "Update") = {}
           /\ \A i \in Writes(last') : last'.calls[i].key # SourceKey
           /\ Present(store', SourceKey) <=> Present(store, SourceKey)
           /\ Present(store, SourceKey) =>
                 Lookup(store', SourceKey) = Lookup(store, SourceKey))]_vars

\* C18's case: copyPullSecret ran with the owner's namespace as its target,
\* found its own source there and left it in the store as it fetched it.
C18_Witness ==
    /\ last.op = "copyPullSecret"
    /\ last.newNS = m.Namespace
    /\ Len(last.calls) = 2
    /\ last.calls[2].err = Nil
    /\ Present(store, SourceKey)
    /\ Lookup(store, SourceKey) = last.calls[1].obj

\* The write calls of a call list, in order.
WriteCalls(calls) == SelectSeq(calls, LAMBDA c : c.verb # "Get")

\* Pass p has returned.
Done(p) == conc.pass[p].pc = "done"

\* C13: for one managed reference under interleaved writers (passes of the
\* same ensure handler for the same object, created under the key it is
\* looked up by, and one write of another actor) no pass issues a Create or
\* an Update once the store no longer agrees with what its Get answered;
\* in particular no two passes that both saw the resource absent both
\* issue a Create.
C13_NoWriteOnStaleObservation ==
    /\ \A p \in Procs :
          (/\ Done(p)
           /\ Key(conc.pass[p].want) = EnsureGetKey(m, conc.pass[p].want)
           /\ conc.pass[p].stale)
          => WriteCalls(conc.pass[p].calls) = <<>>
    /\ \A p, q \in Procs :
          (/\ p # q
           /\ Done(p)
           /\ Done(q)
           /\ conc.pass[p].want = conc.pass[q].want
           /\ Key(conc.pass[p].want) = EnsureGetKey(m, conc.pass[p].want)
           /\ conc.pass[p].get.err = NotFound
           /\ conc.pass[q].get.err = NotFound)
          => ~(\E c \in 1..Len(conc.pass[p].calls), d \in 1..Len(conc.pass[q].calls) :
                  /\ conc.pass[p].calls[c].verb = "Create"
                  /\ conc.pass[q].calls[d].verb = "Create")

\* The store after pass p and then pass q, each run to its return, from the
\* store the passes started on, with the faults the store gave them.
InSequence(p, q) ==
    LET first == Ensure(conc.start, m, conc.pass[p].want, conc.pass[p].gf, conc.pass[p].wf)
    IN Ensure(first.store, m, conc.pass[q].want, conc.pass[q].gf, conc.pass[q].wf).store

\* Pass p as it goes when it runs alone on the store the passes started on.
Alone(p) == Ensure(conc.start, m, conc.pass[p].want, conc.pass[p].gf, conc.pass[p].wf)

\* C14: ensure passes for different managed references do not interfere.
\* With no other writer, once the passes have returned, each has issued the
\* writes and returned the result it does when run alone, and the store is
\* the one that running them one after the other, in either order, gives.
C14_DifferentReferencesDoNotInterfere ==
    \A p, q \in Procs :
        (/\ p # q
         /\ \A r \in Procs : Done(r) <=> r \in {p, q}
         /\ Key(conc.pass[p].want) # Key(conc.pass[q].want)
         /\ ~conc.wrote)
        => (/\ WriteCalls(conc.pass[p].calls) = WriteCalls(Alone(p).calls)
            /\ conc.pass[p].ret = Alone(p).ret
            /\ store = InSequence(p, q)
            /\ store = InSequence(q, p))

====
